---- MODULE Spec2Model ----
(***************************************************************************)
(* The quiz dialog engine of fb-quiz-bot: game definition queries          *)
(* (game_def.rs), sessions (types.rs), the in-memory session repository    *)
(* (services/sessions.rs), text normalisation (text_util.rs) and the       *)
(* per-message state machine MessageContext::process (engine.rs).          *)
(*                                                                         *)
(* Strings that the code compares or searches are sequences of one-        *)
(* character strings; Option<T> is <<>> (None) or <<x>> (Some(x)).         *)
(* Topic and question indices are 0-based as in the code.                  *)
(***************************************************************************)
EXTENDS Integers, Sequences, FiniteSets, TLC

VARIABLES game, store, others, pc, ctx, races, streak, call

vars == <<game, store, others, pc, ctx, races, streak, call>>

----------------------------------------------------------------------------
(* Bounds of the model.                                                    *)

\* Largest max_attempt among the game definitions explored.
MaxAttemptCfg == 2

\* How many times a message may be accepted while another one of the same
\* player is still between its session load and its session store.
MaxRaces == 1

\* The counter of consecutive wrong answers (history only) saturates here.
MaxStreak == 3

\* Longest text given to answer_to_standard on its own.
MaxLen == 3

----------------------------------------------------------------------------
(* Integer widths.                                                         *)

U8 == 256
U16 == 65536

None == <<>>
Some(x) == <<x>>

----------------------------------------------------------------------------
(* text_util.rs                                                            *)

Letters == {"a", "e", "h", "i", "n", "o", "p", "s", "t", "y"}
Capitals == {"H", "N", "T"}
Digits == {"1", "2"}

\* The character class [a-zа-я0-9] under (?i): letters of either case, digits.
MEANINGLESS_SYMBOLS(c) == c \notin (Letters \cup Capitals \cup Digits)

to_lowercase_char(c) ==
    CASE c = "H" -> "h"
      [] c = "N" -> "n"
      [] c = "T" -> "t"
      [] OTHER -> c

to_lowercase(s) == [i \in 1..Len(s) |-> to_lowercase_char(s[i])]

\* Regex::replace: only the leftmost match (one maximal run) is replaced.
regex_replace_first(s) ==
    LET hits == {i \in 1..Len(s) : MEANINGLESS_SYMBOLS(s[i])} IN
    IF hits = {} THEN s
    ELSE LET first == CHOOSE i \in hits : \A j \in hits : i <= j
             after == {j \in first..Len(s) : ~MEANINGLESS_SYMBOLS(s[j])}
             stop  == IF after = {} THEN Len(s) + 1
                      ELSE CHOOSE j \in after : \A k \in after : j <= k
         IN SubSeq(s, 1, first - 1) \o SubSeq(s, stop, Len(s))

answer_to_standard(text) == to_lowercase(regex_replace_first(text))

----------------------------------------------------------------------------
(* Words used by the game definitions and by the players.                  *)

w_hi   == <<"h", "i">>
w_yes  == <<"y", "e", "s">>
w_no   == <<"n", "o">>
w_stop == <<"s", "t", "o", "p">>
w_t1   == <<"t", "1">>
w_t2   == <<"t", "2">>
w_a1   == <<"a", "1">>
w_a2   == <<"a", "2">>
w_t    == <<"t">>

\* Raw texts a player may send (before normalisation).
RawTexts ==
    { <<"H", "i">>, w_yes, <<"N", "o", "!">>, w_stop, w_t1, <<"T", "2", " ">>,
      w_a1, w_a2, w_t, <<>> }

----------------------------------------------------------------------------
(* game_def.rs: the game definition and its read-only queries.             *)

QuestionId(t, q) == <<t, q>>
QuestionTopic(question_id) == question_id[1]

\* The game of the engine's tests (test_resources/games/game-1.json as the
\* tests of engine.rs show it), with max_attempt left open.
PlainGame(max_attempt) ==
    [ id |-> 1, name |-> "#TEST_GAME",
      generic_answers |-> [yes |-> {w_yes}, no |-> {w_no}, stop |-> {w_stop}],
      topics |-> << [key |-> w_t1, bonus |-> 1,
                     questions |-> << [text |-> "q11", answers |-> {w_a1}] >>],
                    [key |-> w_t2, bonus |-> 1,
                     questions |-> << [text |-> "q21", answers |-> {w_a2}] >>] >>,
      max_attempt |-> max_attempt ]

\* A game whose vocabularies overlap: the stop words are also yes and no
\* words, a substring of both topic keys and an accepted answer; "no" is a
\* yes word and a no word; topic 0 has two questions; bonuses differ.
OverlapGame(max_attempt) ==
    [ id |-> 1, name |-> "#OVERLAP",
      generic_answers |-> [yes |-> {w_yes, w_no, w_stop}, no |-> {w_no, w_stop},
                           stop |-> {w_stop, w_t}],
      topics |-> << [key |-> w_t1, bonus |-> 2,
                     questions |-> << [text |-> "q11", answers |-> {w_a1, w_stop}],
                                      [text |-> "q12", answers |-> {w_a2, w_t}] >>],
                    [key |-> w_t2, bonus |-> 3,
                     questions |-> << [text |-> "q21", answers |-> {w_a2, w_hi}] >>] >>,
      max_attempt |-> max_attempt ]

\* A game of n topics: the two topics of the test game, then topics that no
\* text of RawTexts selects.  The loader accepts a topic list of any length.
LongGame(n, max_attempt) ==
    [ PlainGame(max_attempt) EXCEPT
        !.name = "#LONG",
        !.topics = @ \o [i \in 1..(n - 2) |->
                           [key |-> <<"p">>, bonus |-> 1,
                            questions |-> << [text |-> "q", answers |-> {<<"p">>}] >>]] ]

MaxAttempts == {None} \cup {Some(m) : m \in 0..MaxAttemptCfg}

\* Games of at most 255 topics.
Games == {PlainGame(m) : m \in MaxAttempts} \cup {OverlapGame(m) : m \in MaxAttempts}

\* Games whose number of topics does not fit 8 bits.
LongGames == {LongGame(n, m) : n \in {U8, U8 + 1}, m \in MaxAttempts}

is_yes(g, text) == \E s \in g.generic_answers.yes : s = text
is_no(g, text) == \E s \in g.generic_answers.no : s = text
is_stop(g, text) == \E s \in g.generic_answers.stop : s = text

\* str::contains: text occurs in key as a contiguous substring.
contains(key, text) ==
    \E i \in 0..(Len(key) - Len(text)) : SubSeq(key, i + 1, i + Len(text)) = text

\* Mutation: an empty text matches no key.
find_topic_nonempty(g, text) ==
    LET hits == {i \in 1..Len(g.topics) :
                   text # <<>> /\ contains(g.topics[i].key, text)} IN
    IF hits = {} THEN None
    ELSE Some(((CHOOSE i \in hits : \A j \in hits : i <= j) - 1) % U8)

find_topic(g, text) ==
    LET hits == {i \in 1..Len(g.topics) : contains(g.topics[i].key, text)} IN
    IF hits = {} THEN None
    ELSE Some(((CHOOSE i \in hits : \A j \in hits : i <= j) - 1) % U8)

\* r % num panics when num, the number of questions as u8, is 0.
get_question_from_topic_panics(g, id) ==
    Len(g.topics[id + 1].questions) % U8 = 0

\* Mutation: the remainder is taken by the number of questions plus one.
get_question_from_topic_wide(g, id, r) ==
    LET num == Len(g.topics[id + 1].questions) % U8 IN
    QuestionId(id, r % (num + 1))

\* r is the byte rand::random() returned.
get_question_from_topic(g, id, r) ==
    LET num == Len(g.topics[id + 1].questions) % U8 IN
    QuestionId(id, r % num)

get_question_text(g, question_id) ==
    g.topics[question_id[1] + 1].questions[question_id[2] + 1].text

is_correct_answer(g, question_id, text) ==
    \E a \in g.topics[question_id[1] + 1].questions[question_id[2] + 1].answers : a = text

get_bonus(g, topic_id) == g.topics[topic_id + 1].bonus

\* Mutation: the game counts as complete one topic early.
is_complete_early(g, num_answers) == ((Len(g.topics) - 1) % U8) = num_answers

is_complete(g, num_answers) == (Len(g.topics) % U8) = num_answers

topic_keys(g) == [i \in 1..Len(g.topics) |-> g.topics[i].key]

----------------------------------------------------------------------------
(* types.rs: sessions, session states and response messages.               *)

New == [tag |-> "New"]
Deciding == [tag |-> "Deciding"]
ChoosingTopic == [tag |-> "ChoosingTopic"]
Terminated == [tag |-> "Terminated"]
Complete == [tag |-> "Complete"]
Answering(attempt) == [tag |-> "Answering", attempt |-> attempt]

AnswerAttempt(question_id, attempt) == [question_id |-> question_id, attempt |-> attempt]

SessionState_answering(question_id, attempt) ==
    Answering(AnswerAttempt(question_id, attempt))

PlayerId == [channel_id |-> "1", id |-> "1"]

GameSession_new(player_id, game_id) ==
    [player_id |-> player_id, game_id |-> game_id, state |-> New,
     results |-> <<>>, score |-> 0]

TopicResult(topic_id, score) == [topic_id |-> topic_id, score |-> score]

\* self.score += score as u16: the sum leaves 16 bits.
record_overflows(session, score) == session.score + score >= U16

\* Mutation: the new result replaces the results recorded before.
record_alone(session, topic_id, score, overflow_checks) ==
    [session |-> [session EXCEPT !.score = (@ + score) % U16,
                                 !.results = <<TopicResult(topic_id, score)>>],
     panicked |-> FALSE]

\* Mutation: the result is pushed but the score is not added.
record_without_score(session, topic_id, score, overflow_checks) ==
    [session |-> [session EXCEPT !.results = Append(@, TopicResult(topic_id, score))],
     panicked |-> FALSE]

\* Mutation: the bonus is added to the score twice.
record_twice(session, topic_id, score, overflow_checks) ==
    [session |-> [session EXCEPT !.score = (@ + score + score) % U16,
                                 !.results = Append(@, TopicResult(topic_id, score))],
     panicked |-> FALSE]

\* GameSession::record.  An addition that leaves 16 bits panics before the
\* push in a build with overflow checks and wraps in a build without them;
\* overflow_checks tells which build runs.
record(session, topic_id, score, overflow_checks) ==
    IF overflow_checks /\ record_overflows(session, score)
    THEN [session |-> session, panicked |-> TRUE]
    ELSE [session |-> [session EXCEPT !.score = (@ + score) % U16,
                                      !.results = Append(@, TopicResult(topic_id, score))],
          panicked |-> FALSE]

\* Mutation: the results are searched for the score instead of the topic.
has_played_by_score(session, topic_id) ==
    \E i \in 1..Len(session.results) : session.results[i].score = topic_id

has_played(session, topic_id) ==
    \E i \in 1..Len(session.results) : session.results[i].topic_id = topic_id

Greeting(name) == [tag |-> "Greeting", name |-> name]
Rephrase == [tag |-> "Rephrase"]
Rules(keys) == [tag |-> "Rules", topics |-> keys]
AnswerQuestion(text) == [tag |-> "AnswerQuestion", text |-> text]
PleaseRetry == [tag |-> "PleaseRetry"]
PleaseRetryLimits(left) == [tag |-> "PleaseRetryLimits", left |-> left]
Incorrect == [tag |-> "Incorrect"]
Correct(score) == [tag |-> "Correct", score |-> score]
GameComplete(score) == [tag |-> "GameComplete", score |-> score]
ChooseNextTopic == [tag |-> "ChooseNextTopic"]
AlreadyAnswered == [tag |-> "AlreadyAnswered"]
Quit == [tag |-> "Quit"]

----------------------------------------------------------------------------
(* services/sessions.rs: the repository, a map from game ids to maps from  *)
(* player ids to sessions.                                                 *)

get_by_id(repo, game_id, player_id) ==
    IF game_id \in DOMAIN repo
    THEN IF player_id \in DOMAIN repo[game_id]
         THEN Some(repo[game_id][player_id])
         ELSE None
    ELSE None

\* Mutation: the sessions of the game are replaced by the one stored.
store_session_alone(repo, session) ==
    [g \in DOMAIN repo \cup {session.game_id} |->
        IF g = session.game_id
        THEN [p \in {session.player_id} |-> session]
        ELSE repo[g]]

store_session(repo, session) ==
    LET l == [g \in DOMAIN repo \cup {session.game_id} |->
                IF g \in DOMAIN repo THEN repo[g] ELSE <<>>]
    IN [l EXCEPT ![session.game_id] =
          [p \in DOMAIN @ \cup {session.player_id} |->
              IF p = session.player_id THEN session ELSE @[p]]]

----------------------------------------------------------------------------
(* services/definitions.rs: the channels and the games that were loaded.   *)

\* Channel "1" plays the loaded game, channel "2" has no game_id, channel
\* "3" names a game that was not loaded; "9" is no channel.
ChannelIds == {"1", "2", "3", "9"}

\* Channel "4" plays a second loaded game.
Channels ==
    [c \in {"1", "2", "3", "4"} |->
        [channel_id |-> c,
         game_id |-> IF c = "1" THEN Some(1) ELSE IF c = "2" THEN None
                     ELSE IF c = "3" THEN Some(7) ELSE Some(2)]]

\* The second loaded game.
OtherGame == [PlainGame(Some(1)) EXCEPT !.id = 2, !.name = "#OTHER"]

\* The senders of inbound messages: one player on each channel id.
Players == {[channel_id |-> c, id |-> "1"] : c \in ChannelIds}

get_channel_by_id(channel_id) ==
    IF channel_id \in DOMAIN Channels THEN Some(Channels[channel_id]) ELSE None

\* The games loaded are g and OtherGame.
get_game_by_id(g, game_id) ==
    IF game_id = g.id THEN Some(g)
    ELSE IF game_id = OtherGame.id THEN Some(OtherGame)
    ELSE None

----------------------------------------------------------------------------
(* engine.rs: MessageContext.  A context c is a record                     *)
(*   sender   the player_id of the inbound message (history),              *)
(*   earlier  the tasks whose messages were accepted before this one and   *)
(*            were still being processed when it was accepted (history),   *)
(*   message  the normalised text,                                         *)
(*   session  the session being worked on,                                 *)
(*   out      the responses handed to the responder so far, in order,      *)
(*   during   the session the context holds during each respond().await,   *)
(*            in order: an assignment the code makes after the await is    *)
(*            not in the session of that await,                            *)
(*   to_store whether store_progress was called,                           *)
(*   stored   the calls of the repository's store, in order: the session   *)
(*            given and how many responses had been handed over (history), *)
(*   loaded   the session as restore_session left it (history),            *)
(*   panicked whether the turn ended in a panic.                           *)

MessageContext_new(g, player_id, text) ==
    [sender |-> player_id,
     earlier |-> {},
     message |-> answer_to_standard(text),
     session |-> GameSession_new(player_id, g.id),
     loaded |-> GameSession_new(player_id, g.id),
     out |-> <<>>, during |-> <<>>, pending |-> <<>>, to_store |-> FALSE,
     stored |-> <<>>, panicked |-> FALSE]

\* respond() borrows the context: during the await the session is the one
\* the caller had assigned so far.
respond(c, response) ==
    [c EXCEPT !.out = Append(@, response), !.during = Append(@, c.session)]

\* The turn unwinds: nothing more of process() is run.
panic(c) == [c EXCEPT !.panicked = TRUE]

restore_session(g, c, repo) ==
    LET found == get_by_id(repo, g.id, c.session.player_id) IN
    IF found # None THEN [c EXCEPT !.session = found[1], !.loaded = found[1]]
    ELSE c

store_progress(c) ==
    [c EXCEPT !.to_store = TRUE,
              !.stored = Append(@, [session |-> c.session, responses |-> Len(c.out)])]

\* Mutation: the greeting is sent but the state stays New.
greet_state_kept(g, c) == respond(c, Greeting(g.name))

greet(g, c) ==
    [respond(c, Greeting(g.name)) EXCEPT !.session.state = Deciding]

\* Mutation: the no words are tested before the yes words.
has_user_agreed_to_start_no_first(g, c) ==
    IF is_no(g, c.message)
    THEN [respond(c, Quit) EXCEPT !.session.state = Terminated]
    ELSE IF is_yes(g, c.message)
    THEN [respond(c, Rules(topic_keys(g))) EXCEPT !.session.state = ChoosingTopic]
    ELSE respond(c, Rephrase)

has_user_agreed_to_start(g, c) ==
    IF is_yes(g, c.message)
    THEN [respond(c, Rules(topic_keys(g))) EXCEPT !.session.state = ChoosingTopic]
    ELSE IF is_no(g, c.message)
    THEN [respond(c, Quit) EXCEPT !.session.state = Terminated]
    ELSE respond(c, Rephrase)

\* Mutation: a topic is offered again although it has a result.
choose_topic_replay(g, c, r) ==
    LET found == find_topic(g, c.message) IN
    IF found # None
    THEN IF get_question_from_topic_panics(g, found[1]) THEN panic(c)
         ELSE LET question_id == get_question_from_topic(g, found[1], r) IN
         respond([c EXCEPT !.session.state = SessionState_answering(question_id, 0)],
                 AnswerQuestion(get_question_text(g, question_id)))
    ELSE respond(c, Rephrase)

\* Mutation: the text sent is that of the topic's first question.
choose_topic_first_text(g, c, r) ==
    LET found == find_topic(g, c.message) IN
    IF found # None
    THEN IF has_played(c.session, found[1])
         THEN respond(c, AlreadyAnswered)
         ELSE IF get_question_from_topic_panics(g, found[1]) THEN panic(c)
         ELSE LET question_id == get_question_from_topic(g, found[1], r) IN
              respond([c EXCEPT !.session.state = SessionState_answering(question_id, 0)],
                      AnswerQuestion(get_question_text(g, QuestionId(found[1], 0))))
    ELSE respond(c, Rephrase)

choose_topic(g, c, r) ==
    LET found == find_topic(g, c.message) IN
    IF found # None
    THEN IF has_played(c.session, found[1])
         THEN respond(c, AlreadyAnswered)
         ELSE IF get_question_from_topic_panics(g, found[1]) THEN panic(c)
         ELSE LET question_id == get_question_from_topic(g, found[1], r) IN
              respond([c EXCEPT !.session.state = SessionState_answering(question_id, 0)],
                      AnswerQuestion(get_question_text(g, question_id)))
    ELSE respond(c, Rephrase)

\* Mutation: the stop word is tested before the Terminated state.
check_if_terminated_stop_first(g, c) ==
    IF is_stop(g, c.message)
    THEN [c |-> store_progress(respond([c EXCEPT !.session.state = Terminated], Quit)),
          ret |-> TRUE]
    ELSE IF c.session.state = Terminated
    THEN [c |-> c, ret |-> TRUE]
    ELSE [c |-> c, ret |-> FALSE]

\* Mutation: the stop word answers Quit but the state is not set.
check_if_terminated_state_kept(g, c) ==
    IF c.session.state = Terminated
    THEN [c |-> c, ret |-> TRUE]
    ELSE IF is_stop(g, c.message)
    THEN [c |-> store_progress(respond(c, Quit)), ret |-> TRUE]
    ELSE [c |-> c, ret |-> FALSE]

\* Returns the context and the function's boolean result.
check_if_terminated(g, c) ==
    IF c.session.state = Terminated
    THEN [c |-> c, ret |-> TRUE]
    ELSE IF is_stop(g, c.message)
    THEN [c |-> store_progress(respond([c EXCEPT !.session.state = Terminated], Quit)),
          ret |-> TRUE]
    ELSE [c |-> c, ret |-> FALSE]

\* Mutation: Correct is sent before the result is recorded.
answer_was_correct_early_reply(g, c, question_id, overflow_checks) ==
    LET c1 == respond(c, Correct(c.session.score))
        recorded == record(c.session, QuestionTopic(question_id),
                           get_bonus(g, QuestionTopic(question_id)), overflow_checks)
    IN IF recorded.panicked THEN panic(c)
       ELSE [c1 EXCEPT !.session = [recorded.session EXCEPT !.state = ChoosingTopic]]

answer_was_correct(g, c, question_id, overflow_checks) ==
    LET recorded == record(c.session, QuestionTopic(question_id),
                           get_bonus(g, QuestionTopic(question_id)), overflow_checks)
        c1 == [c EXCEPT !.session = recorded.session]
    IN IF recorded.panicked THEN panic(c)
       ELSE [respond(c1, Correct(c1.session.score)) EXCEPT !.session.state = ChoosingTopic]

\* Mutation: the last wrong answer records the result but the state stays
\* Answering.
answer_was_incorrect_state_kept(c, max_attempt, num_attempt, question_id, overflow_checks) ==
    LET next_attempt == (num_attempt + 1) % U8 IN
    IF overflow_checks /\ num_attempt + 1 >= U8 THEN panic(c)
    ELSE IF next_attempt >= max_attempt
    THEN [respond(c, Incorrect)
            EXCEPT !.session = record(@, QuestionTopic(question_id), 0,
                                      overflow_checks).session]
    ELSE [respond(c, PleaseRetryLimits(max_attempt - next_attempt))
            EXCEPT !.session.state = SessionState_answering(question_id, next_attempt)]

\* Mutation: one attempt more is allowed (> in place of >=).
answer_was_incorrect_one_more(c, max_attempt, num_attempt, question_id, overflow_checks) ==
    LET next_attempt == (num_attempt + 1) % U8 IN
    IF overflow_checks /\ num_attempt + 1 >= U8 THEN panic(c)
    ELSE IF next_attempt > max_attempt
    THEN LET c1 == [respond(c, Incorrect) EXCEPT !.session.state = ChoosingTopic]
         IN [c1 EXCEPT !.session = record(@, QuestionTopic(question_id), 0,
                                          overflow_checks).session]
    ELSE [respond(c, PleaseRetryLimits(max_attempt - next_attempt))
            EXCEPT !.session.state = SessionState_answering(question_id, next_attempt)]

\* num_attempt + 1 is an addition of 8 bits: for num_attempt = 255 it panics
\* before anything is sent in a build with overflow checks and wraps to 0 in
\* a build without them.  record(.., 0) adds 0 and cannot overflow.
answer_was_incorrect(c, max_attempt, num_attempt, question_id, overflow_checks) ==
    LET next_attempt == (num_attempt + 1) % U8 IN
    IF overflow_checks /\ num_attempt + 1 >= U8 THEN panic(c)
    ELSE IF next_attempt >= max_attempt
    THEN LET c1 == [respond(c, Incorrect) EXCEPT !.session.state = ChoosingTopic]
         IN [c1 EXCEPT !.session = record(@, QuestionTopic(question_id), 0,
                                          overflow_checks).session]
    ELSE [respond(c, PleaseRetryLimits(max_attempt - next_attempt))
            EXCEPT !.session.state = SessionState_answering(question_id, next_attempt)]

answer_question(g, c, attempt, overflow_checks) ==
    IF is_correct_answer(g, attempt.question_id, c.message)
    THEN answer_was_correct(g, c, attempt.question_id, overflow_checks)
    ELSE IF g.max_attempt # None
    THEN answer_was_incorrect(c, g.max_attempt[1], attempt.attempt, attempt.question_id,
                              overflow_checks)
    ELSE respond(c, PleaseRetry)

check_if_game_complete(g, c) ==
    IF is_complete(g, Len(c.session.results) % U8)
    THEN [respond(c, GameComplete(c.session.score)) EXCEPT !.session.state = Complete]
    ELSE IF c.session.state = ChoosingTopic
    THEN respond(c, ChooseNextTopic)
    ELSE c

\* Mutation: the Complete arm is missing, so the turn answers nothing.
process_complete_silent(g, c, r, overflow_checks) ==
    LET t == check_if_terminated(g, c) IN
    IF t.ret THEN t.c
    ELSE LET c0 == t.c
             tag == c0.session.state.tag
             c1 == CASE tag = "New" -> greet(g, c0)
                     [] tag = "Deciding" -> has_user_agreed_to_start(g, c0)
                     [] tag = "ChoosingTopic" -> choose_topic(g, c0, r)
                     [] tag = "Answering" ->
                          LET a == answer_question(g, c0, c0.session.state.attempt,
                                                   overflow_checks)
                          IN IF a.panicked THEN a ELSE check_if_game_complete(g, a)
                     [] OTHER -> c0
         IN IF c1.panicked THEN c1 ELSE store_progress(c1)

\* Mutation: a message for a Complete session reopens the game.
process_complete_reopens(g, c, r, overflow_checks) ==
    LET t == check_if_terminated(g, c) IN
    IF t.ret THEN t.c
    ELSE LET c0 == t.c
             tag == c0.session.state.tag
             c1 == CASE tag = "New" -> greet(g, c0)
                     [] tag = "Deciding" -> has_user_agreed_to_start(g, c0)
                     [] tag = "ChoosingTopic" -> choose_topic(g, c0, r)
                     [] tag = "Answering" ->
                          LET a == answer_question(g, c0, c0.session.state.attempt,
                                                   overflow_checks)
                          IN IF a.panicked THEN a ELSE check_if_game_complete(g, a)
                     [] tag = "Complete" ->
                          [respond(c0, GameComplete(c0.session.score))
                             EXCEPT !.session.state = ChoosingTopic]
                     [] OTHER -> c0
         IN IF c1.panicked THEN c1 ELSE store_progress(c1)

\* Mutation: the session is stored before the step instead of after it.
process_store_first(g, c, r, overflow_checks) ==
    LET t == check_if_terminated(g, c) IN
    IF t.ret THEN t.c
    ELSE LET c0 == store_progress(t.c)
             tag == c0.session.state.tag
             c1 == CASE tag = "New" -> greet(g, c0)
                     [] tag = "Deciding" -> has_user_agreed_to_start(g, c0)
                     [] tag = "ChoosingTopic" -> choose_topic(g, c0, r)
                     [] tag = "Answering" ->
                          LET a == answer_question(g, c0, c0.session.state.attempt,
                                                   overflow_checks)
                          IN IF a.panicked THEN a ELSE check_if_game_complete(g, a)
                     [] tag = "Complete" -> respond(c0, GameComplete(c0.session.score))
                     [] OTHER -> c0
         IN c1

\* process() after restore_session; r is the random byte of this turn and
\* overflow_checks tells whether the build checks integer overflow.
process(g, c, r, overflow_checks) ==
    LET t == check_if_terminated(g, c) IN
    IF t.ret THEN t.c
    ELSE LET c0 == t.c
             tag == c0.session.state.tag
             c1 == CASE tag = "New" -> greet(g, c0)
                     [] tag = "Deciding" -> has_user_agreed_to_start(g, c0)
                     [] tag = "ChoosingTopic" -> choose_topic(g, c0, r)
                     [] tag = "Answering" ->
                          LET a == answer_question(g, c0, c0.session.state.attempt,
                                                   overflow_checks)
                          IN IF a.panicked THEN a ELSE check_if_game_complete(g, a)
                     [] tag = "Complete" -> respond(c0, GameComplete(c0.session.score))
                     [] OTHER -> c0
         IN IF c1.panicked THEN c1 ELSE store_progress(c1)

\* Mutation: a channel without game_id plays the loaded game.
process_message_game_default(g, channel_id) ==
    LET channel == get_channel_by_id(channel_id) IN
    IF channel # None
    THEN IF channel[1].game_id # None
         THEN get_game_by_id(g, channel[1].game_id[1])
         ELSE Some(g)
    ELSE None

\* GameEngine::process_message up to MessageContext::new: the game the
\* message is processed with, None when the message is ignored.
process_message_game(g, channel_id) ==
    LET channel == get_channel_by_id(channel_id) IN
    IF channel # None
    THEN IF channel[1].game_id # None
         THEN get_game_by_id(g, channel[1].game_id[1])
         ELSE None
    ELSE None

----------------------------------------------------------------------------
(* The system: messages of one player, each handled by a task that runs    *)
(* process_message; tasks interleave at the awaits of process().           *)

\* Tasks are interchangeable; a message is taken by the first idle one.
Tasks == {1, 2}

\* The values of rand::random::<u8>().
RandomBytes == 0..(U8 - 1)

\* The largest number of questions, as get_question_from_topic reads it, of
\* a topic of g.
MaxQuestions(g) ==
    LET nums == {Len(g.topics[i].questions) % U8 : i \in 1..Len(g.topics)} \cup {1}
    IN CHOOSE n \in nums : \A k \in nums : k <= n

\* Bytes that stand for all of RandomBytes in a turn of game g: a topic of
\* num questions yields r % num, and every remainder 0..num - 1 of a byte is
\* the remainder of a byte below MaxQuestions(g).
Draws(g) == 0..(MaxQuestions(g) - 1)

IdleCtx == MessageContext_new([id |-> 0], PlayerId, <<>>)

\* A call of a pure function on its own: the function, its arguments (text,
\* n, the random byte r), how many steps were taken and what they returned.
IdleCall ==
    [fn |-> "none", text |-> <<>>, n |-> 0, r |-> 0, step |-> 0,
     std |-> <<>>, std2 |-> <<>>, topic |-> None, complete |-> FALSE,
     question |-> QuestionId(0, 0)]

InFlight(t) == pc[t] \in {"process", "respond", "store"}

\* The repository: store is the session of PlayerId in the game of channel
\* "1", others holds every other session.
Repository ==
    [g \in DOMAIN others \cup (IF store = None THEN {} ELSE {game.id}) |->
        LET rest == IF g \in DOMAIN others THEN others[g] ELSE <<>> IN
        IF g = game.id /\ store # None
        THEN [p \in DOMAIN rest \cup {PlayerId} |->
                 IF p = PlayerId THEN store[1] ELSE rest[p]]
        ELSE rest]

\* The two parts of a repository.
StoreOf(repo) == get_by_id(repo, game.id, PlayerId)

OthersOf(repo) ==
    [g \in DOMAIN repo |->
        [p \in DOMAIN repo[g] \ (IF g = game.id THEN {PlayerId} ELSE {}) |-> repo[g][p]]]

\* The game a turn is processed with (MessageContext.game).
TurnGame(c) == get_game_by_id(game, c.session.game_id)[1]

\* The length of the run of wrong answers to the question being answered.
NextStreak(c, c2) ==
    IF c.session.state.tag = "Answering" /\ ~is_stop(game, c.message)
       /\ ~is_correct_answer(game, c.session.state.attempt.question_id, c.message)
    THEN IF streak < MaxStreak THEN streak + 1 ELSE streak
    ELSE IF c.session.state.tag = "ChoosingTopic" /\ c2.session.state.tag = "Answering"
    THEN 0
    ELSE streak

TypeOK ==
    /\ game \in Games \cup LongGames
    /\ pc \in [Tasks -> {"idle", "process", "respond", "store", "done", "ignored"}]
    /\ races \in 0..MaxRaces
    /\ streak \in 0..MaxStreak

Init ==
    /\ game \in Games
    /\ store = None
    /\ others = <<>>
    /\ pc = [t \in Tasks |-> "idle"]
    /\ ctx = [t \in Tasks |-> IdleCtx]
    /\ races = 0
    /\ streak = 0
    /\ call = IdleCall

\* process_message up to and including restore_session.  A message accepted
\* while another task is in flight counts against the limit of races.
\* A task whose process() has returned ends before the next message is
\* taken: ending touches nothing but the task's own context.
RestoreSession(t, senders, raw, limit) ==
    /\ pc[t] = "idle"
    /\ \A u \in Tasks : pc[u] = "idle" => t <= u
    /\ \A u \in Tasks : pc[u] \notin {"done", "ignored"}
    /\ LET busy == \E u \in Tasks \ {t} : InFlight(u) IN
       /\ busy => races < limit
       /\ races' = IF busy THEN races + 1 ELSE races
    /\ \E player_id \in senders :
         LET found == process_message_game(game, player_id.channel_id) IN
         /\ found # None
         /\ ctx' = [ctx EXCEPT ![t] =
                      [restore_session(found[1],
                                       MessageContext_new(found[1], player_id, raw),
                                       Repository)
                         EXCEPT !.earlier = {u \in Tasks \ {t} : InFlight(u)}]]
    /\ pc' = [pc EXCEPT ![t] = "process"]
    /\ UNCHANGED <<game, store, others, streak, call>>

\* process_message for a message whose channel or game is not found: the
\* message is logged and dropped; no MessageContext is built.
IgnoreMessage(t, player_id) ==
    /\ pc[t] = "idle"
    /\ \A u \in Tasks : pc[u] = "idle" => t <= u
    /\ \A u \in Tasks : pc[u] \notin {"done", "ignored"}
    /\ \A u \in Tasks : ~InFlight(u)
    /\ process_message_game(game, player_id.channel_id) = None
    /\ ctx' = [ctx EXCEPT ![t] = [IdleCtx EXCEPT !.sender = player_id]]
    /\ pc' = [pc EXCEPT ![t] = "ignored"]
    /\ UNCHANGED <<game, store, others, races, streak, call>>

\* Where a turn goes when its responses are handed over.
AfterResponses(c) == IF c.to_store THEN "store" ELSE "done"

\* check_if_terminated and the state-specific step, up to the first
\* respond().await.  What the turn computes depends on its own context only,
\* so it is computed here; its responses wait in pending and are handed to
\* the responder one await at a time.  The context's session is the one the
\* code holds at the await the turn has reached: the session of the first
\* respond() here, and the session process() ends with when the turn sends
\* nothing.  The run of wrong answers is tracked only where turns do not
\* overlap.
Process(t, tracked) ==
    /\ pc[t] = "process"
    /\ \E r \in Draws(TurnGame(ctx[t])), overflow_checks \in BOOLEAN :
         LET c2 == process(TurnGame(ctx[t]), ctx[t], r, overflow_checks)
             held == Append(c2.during, c2.session)
         IN
         /\ ctx' = [ctx EXCEPT ![t] = [c2 EXCEPT !.out = <<>>, !.pending = c2.out,
                                                 !.session = Head(held),
                                                 !.during = Tail(held)]]
         /\ pc' = [pc EXCEPT ![t] = IF c2.out # <<>> THEN "respond"
                                    ELSE AfterResponses(c2)]
         /\ streak' = IF tracked THEN NextStreak(ctx[t], c2) ELSE streak
    /\ UNCHANGED <<game, store, others, races, call>>

\* One respond().await returns: the response was handed to the responder,
\* and the code runs on to its next await, making the assignments that
\* follow the respond() (the state in greet, has_user_agreed_to_start,
\* answer_was_correct and check_if_game_complete, the state and the result or
\* the attempt in answer_was_incorrect).
Respond(t) ==
    /\ pc[t] = "respond"
    /\ ctx' = [ctx EXCEPT ![t].out = Append(@, Head(ctx[t].pending)),
                          ![t].pending = Tail(@),
                          ![t].session = Head(ctx[t].during),
                          ![t].during = Tail(@)]
    /\ pc' = [pc EXCEPT ![t] = IF Len(ctx[t].pending) = 1 THEN AfterResponses(ctx[t])
                               ELSE "respond"]
    /\ UNCHANGED <<game, store, others, races, streak, call>>

\* The store call of store_progress.
StoreProgress(t) ==
    /\ pc[t] = "store"
    /\ LET repo == store_session(Repository, ctx[t].stored[Len(ctx[t].stored)].session)
       IN /\ store' = StoreOf(repo)
          /\ others' = OthersOf(repo)
    /\ pc' = [pc EXCEPT ![t] = "done"]
    /\ UNCHANGED <<game, ctx, races, streak, call>>

\* process() has returned; the task ends.
Finish(t) ==
    /\ pc[t] \in {"done", "ignored"}
    /\ pc' = [pc EXCEPT ![t] = "idle"]
    /\ ctx' = [ctx EXCEPT ![t] = IdleCtx]
    /\ UNCHANGED <<game, store, others, races, streak, call>>

\* The same, for any game the loader accepts.
SeqInit ==
    /\ game \in Games \cup LongGames
    /\ store = None
    /\ others = <<>>
    /\ pc = [t \in Tasks |-> "idle"]
    /\ ctx = [t \in Tasks |-> IdleCtx]
    /\ races = 0
    /\ streak = 0
    /\ call = IdleCall

\* A game of n topics whose second topic, key "hi", has no questions.
HoleGame(n, max_attempt) ==
    [ LongGame(n, max_attempt) EXCEPT
        !.name = "#HOLE",
        !.topics[2] = [key |-> w_hi, bonus |-> 1, questions |-> <<>>] ]

HoleGames == {HoleGame(n, m) : n \in {2, U8}, m \in MaxAttempts}

HoleInit ==
    /\ game \in HoleGames
    /\ store = None
    /\ others = <<>>
    /\ pc = [t \in Tasks |-> "idle"]
    /\ ctx = [t \in Tasks |-> IdleCtx]
    /\ races = 0
    /\ streak = 0
    /\ call = IdleCall

\* A game whose topic list is empty: serde reads "topics": [] as an empty Vec.
EmptyGame(max_attempt) ==
    [ PlainGame(max_attempt) EXCEPT !.name = "#EMPTY", !.topics = <<>> ]

EmptyGames == {EmptyGame(m) : m \in MaxAttempts}

EmptyInit ==
    /\ game \in EmptyGames
    /\ store = None
    /\ others = <<>>
    /\ pc = [t \in Tasks |-> "idle"]
    /\ ctx = [t \in Tasks |-> IdleCtx]
    /\ races = 0
    /\ streak = 0
    /\ call = IdleCall

\* Asynchronous webhook mode: tasks of one player may overlap.
Next ==
    \/ \E t \in Tasks, raw \in RawTexts : RestoreSession(t, Players, raw, MaxRaces)
    \/ \E t \in Tasks : Process(t, FALSE)
    \/ \E t \in Tasks : Respond(t)
    \/ \E t \in Tasks : StoreProgress(t)
    \/ \E t \in Tasks : Finish(t)

Spec == Init /\ [][Next]_vars

\* Messages handled one at a time: no message is accepted while another is
\* in flight.
SeqNext ==
    \/ \E t \in Tasks, raw \in RawTexts : RestoreSession(t, Players, raw, 0)
    \/ \E t \in Tasks, player_id \in Players : IgnoreMessage(t, player_id)
    \/ \E t \in Tasks : Process(t, TRUE)
    \/ \E t \in Tasks : Respond(t)
    \/ \E t \in Tasks : StoreProgress(t)
    \/ \E t \in Tasks : Finish(t)

SeqSpec == SeqInit /\ [][SeqNext]_vars

\* The same for games with a topic without questions.
HoleSpec == HoleInit /\ [][SeqNext]_vars

\* The same for games without topics.
EmptySpec == EmptyInit /\ [][SeqNext]_vars

----------------------------------------------------------------------------
(* Messages without letters and digits: the test game, the overlap game,   *)
(* a game whose stop words include the empty word and a game whose first   *)
(* topic has no questions.                                                 *)

BlankStopGame(max_attempt) ==
    [ PlainGame(max_attempt) EXCEPT
        !.name = "#BLANK_STOP",
        !.generic_answers.stop = @ \cup {<<>>} ]

FirstHoleGame(max_attempt) ==
    [ PlainGame(max_attempt) EXCEPT
        !.name = "#FIRST_HOLE",
        !.topics[1].questions = <<>> ]

\* The test game with k questions in its first topic.  The loader accepts a
\* question list of any length; get_question_from_topic reads its length as
\* u8.
ManyFirstGame(k, max_attempt) ==
    [ PlainGame(max_attempt) EXCEPT
        !.name = "#FIRST_MANY",
        !.topics[1].questions = [i \in 1..k |-> [text |-> "q11", answers |-> {w_a1}]] ]

\* Games whose first topic has 0, 256 or 257 questions.
FirstTopicGames ==
    UNION {{FirstHoleGame(m), ManyFirstGame(U8, m), ManyFirstGame(U8 + 1, m)} :
             m \in MaxAttempts}

BlankGames ==
    UNION {{PlainGame(m), OverlapGame(m), BlankStopGame(m)} : m \in MaxAttempts}
    \cup FirstTopicGames

\* An empty message, runs of punctuation, and the words of a whole game.
BlankTexts ==
    { <<>>, <<"!">>, <<" ", "?">>, w_hi, w_yes, w_stop, w_t2, w_a1, w_a2 }

BlankInit ==
    /\ game \in BlankGames
    /\ store = None
    /\ others = <<>>
    /\ pc = [t \in Tasks |-> "idle"]
    /\ ctx = [t \in Tasks |-> IdleCtx]
    /\ races = 0
    /\ streak = 0
    /\ call = IdleCall

BlankNext ==
    \/ \E t \in Tasks, raw \in BlankTexts : RestoreSession(t, {PlayerId}, raw, 0)
    \/ \E t \in Tasks : Process(t, FALSE)
    \/ \E t \in Tasks : Respond(t)
    \/ \E t \in Tasks : StoreProgress(t)
    \/ \E t \in Tasks : Finish(t)

BlankSpec == BlankInit /\ [][BlankNext]_vars

----------------------------------------------------------------------------
(* Messages handled one at a time, for every kind of game: the games of    *)
(* SeqSpec, the games with a topic without questions and the games whose    *)
(* first topic has 0, 256 or 257 questions.                                *)

AnyGames == Games \cup LongGames \cup HoleGames \cup FirstTopicGames

AnyInit ==
    /\ game \in AnyGames
    /\ store = None
    /\ others = <<>>
    /\ pc = [t \in Tasks |-> "idle"]
    /\ ctx = [t \in Tasks |-> IdleCtx]
    /\ races = 0
    /\ streak = 0
    /\ call = IdleCall

AnySpec == AnyInit /\ [][SeqNext]_vars

----------------------------------------------------------------------------
(* The largest scores: every topic has the largest bonus an 8-bit field    *)
(* holds and the player resolves the topics in the order of the game.      *)

MaxBonus == U8 - 1

Vowels == <<"a", "e", "i", "o">>

\* 256 keys of four letters, none contained in another or in a generic
\* answer.
RichKey(i) ==
    << Vowels[((i \div 64) % 4) + 1], Vowels[((i \div 16) % 4) + 1],
       Vowels[((i \div 4) % 4) + 1], Vowels[(i % 4) + 1] >>

RichGame(n, max_attempt) ==
    [ PlainGame(max_attempt) EXCEPT
        !.name = "#RICH",
        !.topics = [i \in 1..n |->
                      [key |-> RichKey(i - 1), bonus |-> MaxBonus,
                       questions |-> << [text |-> "q", answers |-> {w_a1}] >>]] ]

\* Three topics that a wrong answer resolves without bonus, and the largest
\* number of topics that topic ids of 8 bits tell apart.
RichGames == {RichGame(3, Some(1)), RichGame(U8, None)}

RichInit ==
    /\ game \in RichGames
    /\ store = None
    /\ others = <<>>
    /\ pc = [t \in Tasks |-> "idle"]
    /\ ctx = [t \in Tasks |-> IdleCtx]
    /\ races = 0
    /\ streak = 0
    /\ call = IdleCall

\* The key of the first topic without a result in the stored session.
NextKey ==
    LET open == {i \in 1..Len(game.topics) :
                   store = None \/ ~has_played(store[1], i - 1)}
    IN IF open = {} THEN game.topics[1].key
       ELSE game.topics[CHOOSE i \in open : \A j \in open : i <= j].key

\* A yes word, a stop word, the answer of every question, a wrong answer
\* and the key of the next topic.
RichTexts == {w_yes, w_stop, w_a1, w_hi, NextKey}

RichNext ==
    \/ \E t \in Tasks, raw \in RichTexts : RestoreSession(t, {PlayerId}, raw, 0)
    \/ \E t \in Tasks : Process(t, FALSE)
    \/ \E t \in Tasks : Respond(t)
    \/ \E t \in Tasks : StoreProgress(t)
    \/ \E t \in Tasks : Finish(t)

RichSpec == RichInit /\ [][RichNext]_vars

----------------------------------------------------------------------------
(* Several players: two players of the game of channel "1" and a player    *)
(* of the second game, their turns overlapping.                            *)

KeySenders ==
    { PlayerId, [channel_id |-> "1", id |-> "2"], [channel_id |-> "4", id |-> "1"] }

\* A yes word and a topic key: enough to reach every state but Complete.
KeyTexts == {w_yes, w_t1}

KeyInit ==
    /\ game = PlainGame(Some(1))
    /\ store = None
    /\ others = <<>>
    /\ pc = [t \in Tasks |-> "idle"]
    /\ ctx = [t \in Tasks |-> IdleCtx]
    /\ races = 0
    /\ streak = 0
    /\ call = IdleCall

KeyNext ==
    \/ \E t \in Tasks, raw \in KeyTexts : RestoreSession(t, KeySenders, raw, MaxRaces)
    \/ \E t \in Tasks : Process(t, FALSE)
    \/ \E t \in Tasks : Respond(t)
    \/ \E t \in Tasks : StoreProgress(t)
    \/ \E t \in Tasks : Finish(t)

KeySpec == KeyInit /\ [][KeyNext]_vars

----------------------------------------------------------------------------
(* The pure functions on their own: answer_to_standard on any text,        *)
(* find_topic and is_complete on any game the loader accepts.              *)

\* An upper-case letter, a lower-case letter, a digit and two characters
\* the regex strips.
NormAlphabet == {"H", "i", "1", " ", "!"}

NormTexts == UNION {[1..n -> NormAlphabet] : n \in 0..MaxLen}

\* Texts looked up as topics: keys, parts of keys, a text that contains a
\* key, texts that occur in no key, the empty text.
TopicTexts == {<<>>, w_t, w_t1, w_t2, w_hi, <<"p">>, <<"t", "1", "t">>, <<"2">>}

\* Values of the 8-bit argument of is_complete.
Counts == {0, 1, 2, U8 - 1}

\* A game whose topics have the given keys.
KeyedGame(keys) ==
    [ PlainGame(None) EXCEPT
        !.name = "#KEYS",
        !.topics = [i \in 1..Len(keys) |->
                      [key |-> keys[i], bonus |-> 1,
                       questions |-> << [text |-> "q", answers |-> {<<"p">>}] >>]] ]

\* n topics: n - 1 with key "p", then one with key "hi".
LastKeys(n) == [i \in 1..n |-> IF i < n THEN <<"p">> ELSE w_hi]

\* Topic lists of length 0, 2, 3, 255, 256 and 257.
PureGames ==
    { KeyedGame(<<>>), PlainGame(None), OverlapGame(None),
      KeyedGame(<<w_t2, w_t1, w_t>>),
      LongGame(U8, None), LongGame(U8 + 1, None) }
    \cup { KeyedGame(LastKeys(n)) : n \in {U8 - 1, U8, U8 + 1} }

\* A game of one topic with k questions.
ManyQuestions(k) ==
    [ PlainGame(None) EXCEPT
        !.name = "#QUESTIONS",
        !.topics = << [key |-> w_t1, bonus |-> 1,
                       questions |-> [i \in 1..k |->
                                        [text |-> "q", answers |-> {w_a1}]]] >> ]

\* Topics of 1, 2 and 255 questions.
QuestionGames == {OverlapGame(None)} \cup {ManyQuestions(k) : k \in {1, 2, U8 - 1}}

\* Values of rand::random::<u8>() given to get_question_from_topic.
Bytes == RandomBytes

PureInit ==
    /\ store = None
    /\ others = <<>>
    /\ pc = [t \in Tasks |-> "idle"]
    /\ ctx = [t \in Tasks |-> IdleCtx]
    /\ races = 0
    /\ streak = 0
    /\ \/ /\ game = PlainGame(None)
          /\ call \in {[IdleCall EXCEPT !.fn = "answer_to_standard", !.text = x] :
                         x \in NormTexts}
       \/ /\ game \in PureGames
          /\ call \in {[IdleCall EXCEPT !.fn = "find_topic", !.text = x] :
                         x \in TopicTexts}
       \/ /\ game \in PureGames
          /\ call \in {[IdleCall EXCEPT !.fn = "is_complete", !.n = k] : k \in Counts}
       \/ /\ game \in QuestionGames
          /\ call \in {[IdleCall EXCEPT !.fn = "get_question_from_topic",
                                        !.n = id, !.r = b] :
                         id \in 0..(Len(game.topics) - 1), b \in Bytes}

AnswerToStandard ==
    /\ call.fn = "answer_to_standard"
    /\ call.step = 0
    /\ call' = [call EXCEPT !.step = 1, !.std = answer_to_standard(call.text)]
    /\ UNCHANGED <<game, store, others, pc, ctx, races, streak>>

\* The result of answer_to_standard is given to answer_to_standard.
AnswerToStandardAgain ==
    /\ call.fn = "answer_to_standard"
    /\ call.step = 1
    /\ call' = [call EXCEPT !.step = 2, !.std2 = answer_to_standard(call.std)]
    /\ UNCHANGED <<game, store, others, pc, ctx, races, streak>>

FindTopic ==
    /\ call.fn = "find_topic"
    /\ call.step = 0
    /\ call' = [call EXCEPT !.step = 1, !.topic = find_topic(game, call.text)]
    /\ UNCHANGED <<game, store, others, pc, ctx, races, streak>>

IsComplete ==
    /\ call.fn = "is_complete"
    /\ call.step = 0
    /\ call' = [call EXCEPT !.step = 1, !.complete = is_complete(game, call.n)]
    /\ UNCHANGED <<game, store, others, pc, ctx, races, streak>>

GetQuestionFromTopic ==
    /\ call.fn = "get_question_from_topic"
    /\ call.step = 0
    /\ call' = [call EXCEPT !.step = 1,
                            !.question = get_question_from_topic(game, call.n, call.r)]
    /\ UNCHANGED <<game, store, others, pc, ctx, races, streak>>

PureNext ==
    \/ GetQuestionFromTopic
    \/ AnswerToStandard
    \/ AnswerToStandardAgain
    \/ FindTopic
    \/ IsComplete

PureSpec == PureInit /\ [][PureNext]_vars

----------------------------------------------------------------------------
(* Webhook payloads: handle_event extracts the text messages of a payload  *)
(* and process_messages gives them to the handler, awaiting each call.     *)
(* The server handles requests concurrently: task t runs process_messages  *)
(* for one payload, and call[t] is that payload.                           *)

\* The largest number of messaging items of a payload.
MaxPayload == 2

\* A messaging item with a text, an echo of a text, an item without text.
TextItem(text) == [sender |-> "1", recipient |-> "1", text |-> Some(text), is_echo |-> None]
EchoItem(text) == [sender |-> "1", recipient |-> "1", text |-> Some(text), is_echo |-> Some(TRUE)]
OtherItem == [sender |-> "1", recipient |-> "1", text |-> None, is_echo |-> None]

Items == {TextItem(w_yes), TextItem(w_t1), EchoItem(w_yes), OtherItem}

\* The "messaging" array of an entry.
Entries == UNION {[1..n -> Items] : n \in 0..MaxPayload}

\* Payloads of two entries.
Payloads == {root \in Entries \X Entries : Len(root[1]) + Len(root[2]) <= MaxPayload}

TextMessage(item) == [text |-> item.text[1], from |-> item.sender, to |-> item.recipient]

\* The items of one entry that are pushed, in the order of the array.
RECURSIVE extract_entry(_)
extract_entry(messaging) ==
    IF messaging = <<>> THEN <<>>
    ELSE LET msg == Head(messaging) IN
         (IF msg.text # None /\ msg.is_echo = None THEN <<TextMessage(msg)>> ELSE <<>>)
         \o extract_entry(Tail(messaging))

RECURSIVE extract_messages(_)
extract_messages(entries) ==
    IF entries = <<>> THEN <<>>
    ELSE extract_entry(Head(entries)) \o extract_messages(Tail(entries))

\* Mutation: Vec::pop takes the first element.
pop_front(messages) == [msg |-> messages[1], rest |-> Tail(messages)]

\* Vec::pop: the last element is removed and returned.
pop(messages) ==
    [msg |-> messages[Len(messages)], rest |-> SubSeq(messages, 1, Len(messages) - 1)]

\* Task t handles no payload.
NoPayload(t) == call[t] = IdleCall

\* The test game and a game whose first topic has no questions.
PayloadGames == {PlainGame(Some(1)), FirstHoleGame(None)}

PayloadInit ==
    /\ game \in PayloadGames
    /\ store = None
    /\ others = <<>>
    /\ pc = [t \in Tasks |-> "idle"]
    /\ ctx = [t \in Tasks |-> IdleCtx]
    /\ races = 0
    /\ streak = 0
    /\ call = [t \in Tasks |-> IdleCall]

\* handle_event: the payload is parsed; process_messages starts when it
\* holds a text message, whether or not another payload is being handled.
\* listed is what extract_messages returned, handled what the handler was
\* given so far.
HandleEvent(t, root) ==
    /\ NoPayload(t)
    /\ \A u \in Tasks : NoPayload(u) => t <= u
    /\ LET messages == extract_messages(root) IN
       /\ Len(messages) > 0
       /\ call' = [call EXCEPT ![t] =
                     [fn |-> "process_messages", listed |-> messages,
                      messages |-> messages, handled |-> <<>>]]
    /\ UNCHANGED <<game, store, others, pc, ctx, races, streak>>

\* One round of the loop of process_messages up to restore_session of the
\* engine: the call of process_text for the message before has returned.
PopMessage(t) ==
    /\ ~NoPayload(t)
    /\ call[t].messages # <<>>
    /\ pc[t] = "idle"
    /\ LET popped == pop(call[t].messages)
           player_id == [channel_id |-> popped.msg.to, id |-> popped.msg.from]
           found == process_message_game(game, player_id.channel_id)
       IN /\ found # None
          /\ ctx' = [ctx EXCEPT ![t] =
                       restore_session(found[1],
                                       MessageContext_new(found[1], player_id,
                                                          popped.msg.text),
                                       Repository)]
          /\ call' = [call EXCEPT ![t].messages = popped.rest,
                                  ![t].handled = Append(@, popped.msg)]
    /\ pc' = [pc EXCEPT ![t] = "process"]
    /\ UNCHANGED <<game, store, others, races, streak>>

\* process_text has returned.
Return(t) ==
    /\ ~ctx[t].panicked
    /\ Finish(t)

\* The turn panicked: the panic unwinds through the loop of
\* process_messages, and the messages not yet popped are dropped.
Unwind(t) ==
    /\ pc[t] = "done"
    /\ ctx[t].panicked
    /\ pc' = [pc EXCEPT ![t] = "idle"]
    /\ ctx' = [ctx EXCEPT ![t] = IdleCtx]
    /\ call' = [call EXCEPT ![t] = IdleCall]
    /\ UNCHANGED <<game, store, others, races, streak>>

\* pop returned None: process_messages returns.
EndPayload(t) ==
    /\ ~NoPayload(t)
    /\ call[t].messages = <<>>
    /\ pc[t] = "idle"
    /\ call' = [call EXCEPT ![t] = IdleCall]
    /\ UNCHANGED <<game, store, others, pc, ctx, races, streak>>

PayloadNext ==
    \/ \E t \in Tasks, root \in Payloads : HandleEvent(t, root)
    \/ \E t \in Tasks : PopMessage(t)
    \/ \E t \in Tasks : Process(t, FALSE)
    \/ \E t \in Tasks : Respond(t)
    \/ \E t \in Tasks : StoreProgress(t)
    \/ \E t \in Tasks : Return(t)
    \/ \E t \in Tasks : Unwind(t)
    \/ \E t \in Tasks : EndPayload(t)

PayloadSpec == PayloadInit /\ [][PayloadNext]_vars

----------------------------------------------------------------------------
(* A player who plays on: never a stop word, a yes word in Deciding, in    *)
(* ChoosingTopic a text that find_topic resolves to an unresolved topic,   *)
(* any answer in Answering; messages are handled one at a time, and the    *)
(* player is silent once the game is Complete.  call.n counts the messages *)
(* given to the engine.                                                    *)

\* max_attempt values that are configured.
ConfiguredAttempts == {Some(m) : m \in 0..MaxAttemptCfg}

\* One topic of k questions, max_attempt configured.
ManyQuestionsLimited(k, max_attempt) ==
    [ ManyQuestions(k) EXCEPT !.max_attempt = max_attempt ]

\* Every topic of these games has at least one question.
LiveGames ==
    {PlainGame(m) : m \in ConfiguredAttempts}
    \cup {OverlapGame(m) : m \in ConfiguredAttempts}
    \cup {LongGame(U8 + 1, m) : m \in ConfiguredAttempts}
    \cup {ManyQuestionsLimited(k, Some(1)) : k \in {U8 - 1, U8}}

\* Texts in normal form: words of the games, keys, the empty text.
LiveTexts ==
    {w_hi, w_yes, w_no, w_t1, w_t2, w_a1, w_a2, <<>>, NextKey}

\* The session the next message will be handled with.
NextLoaded ==
    IF store = None THEN GameSession_new(PlayerId, game.id) ELSE store[1]

\* What the player may send next.
LegalTexts ==
    LET s == NextLoaded IN
    {x \in LiveTexts :
        /\ ~is_stop(game, x)
        /\ CASE s.state = New -> TRUE
             [] s.state = Deciding -> is_yes(game, x)
             [] s.state = ChoosingTopic ->
                    /\ find_topic(game, x) # None
                    /\ ~has_played(s, find_topic(game, x)[1])
             [] s.state.tag = "Answering" -> TRUE
             [] OTHER -> FALSE}

\* The number of messages within which the game is to be complete.
MessageBound ==
    LET m == game.max_attempt[1] IN
    2 + Len(game.topics) * (1 + (IF m > 1 THEN m ELSE 1))

LiveInit ==
    /\ game \in LiveGames
    /\ store = None
    /\ others = <<>>
    /\ pc = [t \in Tasks |-> "idle"]
    /\ ctx = [t \in Tasks |-> IdleCtx]
    /\ races = 0
    /\ streak = 0
    /\ call = [IdleCall EXCEPT !.fn = "player"]

\* process_message up to and including restore_session, for the next
\* message of the player; one message more than the bound is the last.
PlayerSends(t, text) ==
    /\ \A u \in Tasks : pc[u] = "idle"
    /\ \A u \in Tasks : t <= u
    /\ text \in LegalTexts
    /\ call.n <= MessageBound
    /\ LET found == process_message_game(game, PlayerId.channel_id) IN
       /\ found # None
       /\ ctx' = [ctx EXCEPT ![t] =
                    restore_session(found[1],
                                    MessageContext_new(found[1], PlayerId, text),
                                    Repository)]
    /\ call' = [call EXCEPT !.n = @ + 1]
    /\ pc' = [pc EXCEPT ![t] = "process"]
    /\ UNCHANGED <<game, store, others, races, streak>>

LiveNext ==
    \/ \E t \in Tasks, text \in LiveTexts : PlayerSends(t, text)
    \/ \E t \in Tasks : Process(t, FALSE)
    \/ \E t \in Tasks : Respond(t)
    \/ \E t \in Tasks : StoreProgress(t)
    \/ \E t \in Tasks : Finish(t)

\* Every await of a turn completes and the player keeps sending.
LiveSpec == LiveInit /\ [][LiveNext]_vars /\ WF_vars(LiveNext)

----------------------------------------------------------------------------
(* Helpers of the properties.                                              *)

RECURSIVE SumScores(_)
SumScores(results) ==
    IF results = <<>> THEN 0
    ELSE results[1].score + SumScores(Tail(results))

\* The task has run check_if_terminated and the state-specific step.
Decided(t) == pc[t] \in {"store", "done"}

\* The session a turn leaves behind when it starts from session s.
TurnSession(s, message, r) ==
    process(game, [IdleCtx EXCEPT !.message = message, !.session = s, !.loaded = s],
            r, FALSE).session

\* The sessions that handling m1 and then m2, one after the other, can
\* leave in the store when the first turn starts from session s.
SequentialOutcomes(s, m1, m2) ==
    { TurnSession(TurnSession(s, m1, r1), m2, r2) : r1 \in Draws(game), r2 \in Draws(game) }

----------------------------------------------------------------------------
(* Properties of the stored session under overlapping turns (Spec).        *)

\* C1: in the stored session of a game of at most 255 topics no topic_id
\* occurs in two TopicResults, whatever the messages and their interleaving.
C1_NoTopicTwice ==
    (store # None /\ Len(game.topics) <= U8 - 1) =>
        \A i, j \in 1..Len(store[1].results) :
            i # j => store[1].results[i].topic_id # store[1].results[j].topic_id

\* Both topics were resolved in a run in which two turns overlapped.
C1_Witness ==
    /\ store # None
    /\ races > 0
    /\ Len(store[1].results) = 2

\* C2: the stored score is the sum of the scores of the stored results.
C2_ScoreIsSum ==
    store # None => store[1].score = SumScores(store[1].results)

\* A stored session with both bonuses of the overlap game, after a race.
C2_Witness ==
    /\ store # None
    /\ races > 0
    /\ store[1].score = 5
    /\ Len(store[1].results) = 2

\* C3: turns of one player are serialised, so no update is lost: when two
\* messages were handled concurrently (both turns loaded the same session
\* and both have returned), the store holds what handling them one after
\* the other, in one of the two orders, would have left.
C3_SerialOutcome ==
    \A a, b \in Tasks :
        (a # b /\ pc[a] = "done" /\ pc[b] = "done" /\ ctx[a].loaded = ctx[b].loaded
         /\ store # None)
        => store[1] \in
              SequentialOutcomes(ctx[a].loaded, ctx[a].message, ctx[b].message)
              \cup SequentialOutcomes(ctx[b].loaded, ctx[b].message, ctx[a].message)

----------------------------------------------------------------------------
(* Properties of one turn, messages handled one at a time (SeqSpec; C12    *)
(* for every kind of game, AnySpec).                                       *)
(* In a decided task, ctx.loaded is the session before the turn,           *)
(* ctx.session the session after it and ctx.out the responses of the turn. *)

\* C4: a message for a Terminated session emits nothing and leaves the
\* session, in the context and in the store, as it was.
C4_TerminatedIsSilent ==
    \A t \in Tasks :
        (Decided(t) /\ ctx[t].loaded.state = Terminated) =>
            /\ ctx[t].out = <<>>
            /\ ctx[t].session = ctx[t].loaded
            /\ store = Some(ctx[t].loaded)

\* A stop word was sent to a Terminated session that holds a result.
C4_Witness ==
    \E t \in Tasks :
        /\ pc[t] = "done"
        /\ ctx[t].loaded.state = Terminated
        /\ Len(ctx[t].loaded.results) > 0
        /\ is_stop(game, ctx[t].message)

\* C5: in every state but Terminated a stop word emits exactly Quit, moves
\* the session to Terminated and changes nothing else of it; the stored
\* session is that session once the turn has returned.
C5_StopQuits ==
    \A t \in Tasks :
        (Decided(t) /\ ctx[t].loaded.state # Terminated /\ is_stop(game, ctx[t].message)) =>
            /\ ctx[t].out = <<Quit>>
            /\ ctx[t].session = [ctx[t].loaded EXCEPT !.state = Terminated]
            /\ pc[t] = "done" => store = Some(ctx[t].session)

\* The stop word was also an accepted answer of the question being answered.
C5_Witness ==
    \E t \in Tasks :
        /\ pc[t] = "done"
        /\ ctx[t].loaded.state.tag = "Answering"
        /\ is_stop(game, ctx[t].message)
        /\ is_correct_answer(game, ctx[t].loaded.state.attempt.question_id, ctx[t].message)

\* C6: a non-stop message for a Complete session emits exactly
\* GameComplete(score) with the score of the session, and leaves the
\* session, in the context and in the store, as it was.
C6_CompleteIsSticky ==
    \A t \in Tasks :
        (Decided(t) /\ ctx[t].loaded.state = Complete /\ ~is_stop(game, ctx[t].message)) =>
            /\ ctx[t].out = <<GameComplete(ctx[t].loaded.score)>>
            /\ ctx[t].session = ctx[t].loaded
            /\ store = Some(ctx[t].loaded)

\* A topic key was sent to a session completed with both bonuses.
C6_Witness ==
    \E t \in Tasks :
        /\ pc[t] = "done"
        /\ ctx[t].loaded.state = Complete
        /\ ctx[t].loaded.score = 5
        /\ ctx[t].message = w_t1

\* The decided turn of task t answered a question with a text that is
\* neither a stop word nor an accepted answer.
WrongAnswer(t) ==
    /\ Decided(t)
    /\ ctx[t].loaded.state.tag = "Answering"
    /\ ~is_stop(game, ctx[t].message)
    /\ ~is_correct_answer(game, ctx[t].loaded.state.attempt.question_id, ctx[t].message)

\* C7: with max_attempt = m, the k-th consecutive wrong answer to a question
\* emits exactly PleaseRetryLimits(m - k) and leaves Answering{q, k} while
\* k < m; the m-th (the first when m <= 1) emits Incorrect first, records
\* (topic, 0) with the score unchanged and leaves Answering.
C7_WrongAnswersLimited ==
    \A t \in Tasks :
        (WrongAnswer(t) /\ game.max_attempt # None) =>
            LET m == game.max_attempt[1]
                k == streak
                q == ctx[t].loaded.state.attempt.question_id
            IN IF k < m
               THEN /\ ctx[t].out = <<PleaseRetryLimits(m - k)>>
                    /\ ctx[t].session =
                         [ctx[t].loaded EXCEPT !.state = SessionState_answering(q, k)]
               ELSE /\ k = m \/ (m <= 1 /\ k = 1)
                    /\ ctx[t].out # <<>>
                    /\ ctx[t].out[1] = Incorrect
                    /\ ctx[t].session.results =
                         Append(ctx[t].loaded.results, TopicResult(QuestionTopic(q), 0))
                    /\ ctx[t].session.score = ctx[t].loaded.score
                    /\ ctx[t].session.state \in {ChoosingTopic, Complete}

\* C8: without max_attempt a wrong answer emits exactly PleaseRetry and
\* leaves the session, in the context and in the store, as it was.
C8_WrongAnswersUnlimited ==
    \A t \in Tasks :
        (WrongAnswer(t) /\ game.max_attempt = None) =>
            /\ ctx[t].out = <<PleaseRetry>>
            /\ ctx[t].session = ctx[t].loaded
            /\ store = Some(ctx[t].loaded)

\* Every topic of the game has a result in the session.
AllResolved(session) ==
    \A i \in 0..(Len(game.topics) - 1) : has_played(session, i)

\* C9: a turn that records a result emits [Correct(score), GameComplete(score)]
\* or [Incorrect, GameComplete(score)] and ends in Complete when it resolved
\* the last unresolved topic; otherwise ChooseNextTopic is its last response
\* and it ends in ChoosingTopic.
C9_CompletionOnLastTopic ==
    \A t \in Tasks :
        (Decided(t) /\ Len(ctx[t].session.results) = Len(ctx[t].loaded.results) + 1) =>
            LET s == ctx[t].session
                out == ctx[t].out
            IN IF AllResolved(s)
               THEN /\ out = << (IF WrongAnswer(t) THEN Incorrect ELSE Correct(s.score)),
                                GameComplete(s.score) >>
                    /\ s.state = Complete
               ELSE /\ out = << (IF WrongAnswer(t) THEN Incorrect ELSE Correct(s.score)),
                                ChooseNextTopic >>
                    /\ s.state = ChoosingTopic

\* What a correct answer does to the session and the responses of turn t.
CorrectAnswerRecorded(t) ==
    LET q == ctx[t].loaded.state.attempt.question_id
        bonus == get_bonus(game, QuestionTopic(q))
    IN /\ ctx[t].session.results =
            Append(ctx[t].loaded.results, TopicResult(QuestionTopic(q), bonus))
       /\ ctx[t].session.score = ctx[t].loaded.score + bonus
       /\ ctx[t].out # <<>>
       /\ ctx[t].out[1] = Correct(ctx[t].session.score)

\* C10 as stated: in Answering{q, a} any accepted answer of q appends the
\* result (topic(q), bonus), adds the bonus to the score and emits
\* Correct(new score) first.
C10_Original ==
    \A t \in Tasks :
        (/\ Decided(t)
         /\ ctx[t].loaded.state.tag = "Answering"
         /\ is_correct_answer(game, ctx[t].loaded.state.attempt.question_id, ctx[t].message))
        => CorrectAnswerRecorded(t)

\* C10, amended: the same for an accepted answer that is not a stop word.
C10_CorrectAnswer ==
    \A t \in Tasks :
        (/\ Decided(t)
         /\ ctx[t].loaded.state.tag = "Answering"
         /\ ~is_stop(game, ctx[t].message)
         /\ is_correct_answer(game, ctx[t].loaded.state.attempt.question_id, ctx[t].message))
        => CorrectAnswerRecorded(t)

\* A correct answer to the second topic raised a score of 2 to 5.
C10_Witness ==
    \E t \in Tasks :
        /\ pc[t] = "done"
        /\ ctx[t].loaded.state.tag = "Answering"
        /\ ctx[t].loaded.score = 2
        /\ ctx[t].session.score = 5
        /\ ctx[t].out[1] = Correct(5)

\* The decided turn of task t chose, in ChoosingTopic, a text that
\* find_topic resolves to a topic.
TopicChosen(t) ==
    /\ Decided(t)
    /\ ctx[t].loaded.state = ChoosingTopic
    /\ find_topic(game, ctx[t].message) # None

\* The turn answered AlreadyAnswered and changed nothing.
AlreadyAnsweredOnly(t) ==
    /\ ctx[t].out = <<AlreadyAnswered>>
    /\ ctx[t].session = ctx[t].loaded
    /\ store = Some(ctx[t].loaded)

\* No turn asks a question of a topic that had a result when the turn
\* began: a decided turn that emitted AnswerQuestion left the session
\* answering a question of a topic without a result in the loaded session.
\* And no stored session is answering a question of a topic that has a
\* result.  (The session a turn holds while Correct is being sent is still
\* Answering{q} with topic(q) recorded; the state is assigned after the
\* await, so that session is neither stored nor a question asked.)
NoResolvedTopicAsked ==
    /\ \A t \in Tasks :
         (Decided(t) /\ \E i \in 1..Len(ctx[t].out) : ctx[t].out[i].tag = "AnswerQuestion")
         => /\ ctx[t].session.state.tag = "Answering"
            /\ ~has_played(ctx[t].loaded,
                           QuestionTopic(ctx[t].session.state.attempt.question_id))
            /\ ~has_played(ctx[t].session,
                           QuestionTopic(ctx[t].session.state.attempt.question_id))
    /\ (store # None /\ store[1].state.tag = "Answering") =>
            ~has_played(store[1], QuestionTopic(store[1].state.attempt.question_id))

\* C11 as stated: in ChoosingTopic any text that find_topic resolves to a
\* topic with a result emits exactly AlreadyAnswered and leaves the session
\* as it was; no question of a resolved topic is asked again.
C11_Original ==
    /\ \A t \in Tasks :
         (TopicChosen(t)
          /\ has_played(ctx[t].loaded, find_topic(game, ctx[t].message)[1]))
         => AlreadyAnsweredOnly(t)
    /\ NoResolvedTopicAsked

\* C11, amended: the same for a text that is not a stop word.
C11_AlreadyAnswered ==
    /\ \A t \in Tasks :
         (TopicChosen(t) /\ ~is_stop(game, ctx[t].message)
          /\ has_played(ctx[t].loaded, find_topic(game, ctx[t].message)[1]))
         => AlreadyAnsweredOnly(t)
    /\ NoResolvedTopicAsked

\* The second topic, resolved with score 0, was chosen again.
C11_Witness ==
    \E t \in Tasks :
        /\ pc[t] = "done"
        /\ ctx[t].loaded.state = ChoosingTopic
        /\ ctx[t].message = w_t2
        /\ \E i \in 1..Len(ctx[t].loaded.results) :
              ctx[t].loaded.results[i] = TopicResult(1, 0)
        /\ ctx[t].out = <<AlreadyAnswered>>

\* The turn asked question q of the topic found, with its own text, as the
\* first attempt, and changed nothing else of the session.
QuestionAsked(t) ==
    LET topic_id == find_topic(game, ctx[t].message)[1] IN
    \E i \in 1..Len(game.topics[topic_id + 1].questions) :
        LET q == QuestionId(topic_id, i - 1) IN
        /\ ctx[t].out = <<AnswerQuestion(game.topics[topic_id + 1].questions[i].text)>>
        /\ ctx[t].session = [ctx[t].loaded EXCEPT !.state = SessionState_answering(q, 0)]

\* C12 as stated: in ChoosingTopic any text that find_topic resolves to an
\* unresolved topic t emits exactly AnswerQuestion(text of q) and moves to
\* Answering{q, 0} with q a question of t; score and results are unchanged.
C12_Original ==
    \A t \in Tasks :
        (TopicChosen(t)
         /\ ~has_played(ctx[t].loaded, find_topic(game, ctx[t].message)[1]))
        => QuestionAsked(t)

\* The turn panicked before it sent, changed or stored anything.
PanickedSilently(t) ==
    /\ ctx[t].panicked
    /\ ctx[t].out = <<>>
    /\ ctx[t].session = ctx[t].loaded
    /\ ctx[t].stored = <<>>
    /\ store = Some(ctx[t].loaded)

\* C12, amended: the same for a text that is not a stop word and a topic
\* whose number of questions, read as u8, is not 0; when it is 0 (no
\* question, or 256 of them) the turn panics in get_question_from_topic:
\* nothing is sent, the session is unchanged and nothing is stored.
C12_QuestionAsked ==
    \A t \in Tasks :
        (TopicChosen(t) /\ ~is_stop(game, ctx[t].message)
         /\ ~has_played(ctx[t].loaded, find_topic(game, ctx[t].message)[1]))
        => IF get_question_from_topic_panics(game, find_topic(game, ctx[t].message)[1])
           THEN PanickedSilently(t)
           ELSE QuestionAsked(t)

\* The second question of a two-question topic was asked.
C12_Witness ==
    \E t \in Tasks :
        /\ pc[t] = "done"
        /\ ctx[t].loaded.state = ChoosingTopic
        /\ ctx[t].session.state = SessionState_answering(QuestionId(0, 1), 0)
        /\ ctx[t].out = <<AnswerQuestion("q12")>>

\* C13: in Deciding a non-stop text emits exactly Rules(keys in declared
\* order) and moves to ChoosingTopic when it is a yes word (also when it is
\* a no word too); else exactly Quit and Terminated when it is a no word;
\* else exactly Rephrase and the state stays Deciding.  Score and results
\* are unchanged in all three branches.
C13_Deciding ==
    \A t \in Tasks :
        (Decided(t) /\ ctx[t].loaded.state = Deciding /\ ~is_stop(game, ctx[t].message)) =>
            LET text == ctx[t].message
                yes == text \in game.generic_answers.yes
                no == text \in game.generic_answers.no
                keys == [i \in 1..Len(game.topics) |-> game.topics[i].key]
            IN /\ yes =>
                    /\ ctx[t].out = <<Rules(keys)>>
                    /\ ctx[t].session = [ctx[t].loaded EXCEPT !.state = ChoosingTopic]
               /\ (~yes /\ no) =>
                    /\ ctx[t].out = <<Quit>>
                    /\ ctx[t].session = [ctx[t].loaded EXCEPT !.state = Terminated]
               /\ (~yes /\ ~no) =>
                    /\ ctx[t].out = <<Rephrase>>
                    /\ ctx[t].session = ctx[t].loaded

\* A word of both vocabularies, not a stop word, was sent in Deciding.
C13_Witness ==
    \E t \in Tasks :
        /\ pc[t] = "done"
        /\ ctx[t].loaded.state = Deciding
        /\ ctx[t].message \in game.generic_answers.yes \cap game.generic_answers.no
        /\ ~is_stop(game, ctx[t].message)
        /\ ctx[t].session.state = ChoosingTopic

\* C14: a message that finds no session in the store is processed against
\* a fresh session (New, no results, score 0); if its text is not a stop
\* word the turn emits exactly Greeting(game name) and stores the session
\* with state Deciding.  A stored session is never removed from the store.
C14_FirstMessage ==
    /\ [](\A t \in Tasks :
            /\ (pc[t] = "process" /\ store = None) =>
                  ctx[t].session = [player_id |-> PlayerId, game_id |-> game.id,
                                    state |-> New, results |-> <<>>, score |-> 0]
            /\ (Decided(t) /\ ctx[t].loaded.state = New /\ ~is_stop(game, ctx[t].message)) =>
                  /\ ctx[t].out = <<Greeting(game.name)>>
                  /\ ctx[t].session = [ctx[t].loaded EXCEPT !.state = Deciding]
                  /\ pc[t] = "store" => store = None
                  /\ pc[t] = "done" => store = Some(ctx[t].session))
    /\ [][store # None => store' # None]_vars

\* The first message of a player was a yes word; the Deciding session is
\* in the store.
C14_Witness ==
    \E t \in Tasks :
        /\ pc[t] = "done"
        /\ ctx[t].loaded.state = New
        /\ ctx[t].message = w_yes
        /\ store # None
        /\ store[1].state = Deciding

----------------------------------------------------------------------------
(* Properties of the pure functions (PureSpec).                            *)

\* The letters and digits of a text, in order, each letter in lower case.
RECURSIVE LettersAndDigits(_)
LettersAndDigits(text) ==
    IF text = <<>> THEN <<>>
    ELSE LET c == Head(text)
             low == IF c = "H" THEN "h" ELSE IF c = "N" THEN "n"
                    ELSE IF c = "T" THEN "t" ELSE c
         IN IF c \in Letters \cup Capitals \cup Digits
            THEN <<low>> \o LettersAndDigits(Tail(text))
            ELSE LettersAndDigits(Tail(text))

\* C15: answer_to_standard removes every character that is not a letter or
\* a digit, wherever and however often it occurs, and lowercases the rest:
\* the result is the lowercased subsequence of the letters and digits.
C15_RemovesEveryRun ==
    (call.fn = "answer_to_standard" /\ call.step >= 1) =>
        call.std = LettersAndDigits(call.text)

\* C16: answer_to_standard is idempotent: applied to its own result it
\* returns that result.
C16_Idempotent ==
    (call.fn = "answer_to_standard" /\ call.step = 2) => call.std2 = call.std

\* C17: find_topic returns the index of the first topic, in declared order,
\* whose key contains the text, and None iff no key contains it.
C17_FirstKeyContaining ==
    (call.fn = "find_topic" /\ call.step = 1) =>
        LET hits == {i \in 0..(Len(game.topics) - 1) :
                       contains(game.topics[i + 1].key, call.text)}
        IN IF hits = {} THEN call.topic = None
           ELSE /\ call.topic # None
                /\ call.topic[1] \in hits
                /\ \A j \in hits : call.topic[1] <= j

\* C18: is_complete(n) is true iff n is the number of topics of the game.
C18_CompleteIffAllTopics ==
    (call.fn = "is_complete" /\ call.step = 1) =>
        (call.complete <=> call.n = Len(game.topics))

----------------------------------------------------------------------------
(* Properties of one turn, continued (SeqSpec; C19 for every kind of game, *)
(* AnySpec).                                                               *)

\* C19: a turn whose loaded session is not Terminated calls the store
\* exactly once, with the session as the turn left it, after every response
\* of the turn was handed over, also when the session is unchanged and on
\* the stop path; a turn whose loaded session is Terminated never calls it.
C19_StoredOnce ==
    \A t \in Tasks :
        Decided(t) =>
            IF ctx[t].loaded.state = Terminated
            THEN /\ ctx[t].stored = <<>>
                 /\ pc[t] = "done"
                 /\ store = Some(ctx[t].loaded)
            ELSE /\ Len(ctx[t].stored) = 1
                 /\ ctx[t].stored[1].session = ctx[t].session
                 /\ ctx[t].stored[1].responses = Len(ctx[t].out)
                 /\ pc[t] = "done" => store = Some(ctx[t].session)

\* The channel id is unknown, or its channel has no game_id, or its game_id
\* is not that of a loaded game.
Unresolved(channel_id) ==
    \/ channel_id \notin DOMAIN Channels
    \/ Channels[channel_id].game_id = None
    \/ Channels[channel_id].game_id # None /\ Channels[channel_id].game_id[1] # game.id

\* C20: a message whose channel id is unknown, whose channel has no
\* game_id or whose game is not found is dropped: no response, no session
\* load, no store call, and the stored session is left as it was.
C20_Dropped ==
    /\ [](\A t \in Tasks :
            (pc[t] # "idle" /\ Unresolved(ctx[t].sender.channel_id)) =>
                /\ pc[t] = "ignored"
                /\ ctx[t].out = <<>>
                /\ ctx[t].stored = <<>>
                /\ ctx[t].loaded.state = New)
    /\ [][\A t \in Tasks :
            (pc[t] = "idle" /\ pc'[t] # "idle" /\ Unresolved(ctx'[t].sender.channel_id))
            => store' = store]_vars

\* A message of a channel without game_id was dropped while the store held
\* a session with a result.
C20_Witness ==
    \E t \in Tasks :
        /\ pc[t] = "ignored"
        /\ ctx[t].sender.channel_id = "2"
        /\ store # None
        /\ Len(store[1].results) > 0

----------------------------------------------------------------------------
(* Delivery of the responses when turns overlap (Spec).  The responses of  *)
(* a turn reach the responder one at a time, in its Respond steps; ctx.out *)
(* holds those handed over so far.                                         *)

\* C21: the responses of an earlier message of a player are all delivered
\* before any response of a later message of that player: when a turn
\* hands over a response, no message accepted after its own has handed over
\* any.
C21_DeliveryOrder ==
    [][\A u \in Tasks :
         (pc[u] = "respond" /\ Len(ctx'[u].out) > Len(ctx[u].out)) =>
            \A t \in Tasks \ {u} :
               (InFlight(t) /\ u \in ctx[t].earlier) => ctx[t].out = <<>>]_vars

----------------------------------------------------------------------------
(* Properties of the repository with several keys (KeySpec).               *)

\* The (game id, player id) pairs that have a session in the repository.
StoredKeys(repo) ==
    {k \in (DOMAIN repo) \X KeySenders : k[2] \in DOMAIN repo[k[1]]}

\* C22: a turn reads and writes only the session of its own (game, player)
\* key: what it loads is the stored session of its key (a fresh one when
\* there is none), and a step changes no stored session but that of the
\* key of the task that stores in that step.
C22_OwnKeyOnly ==
    [][/\ \A t \in Tasks :
            (pc[t] = "idle" /\ pc'[t] = "process") =>
               LET key == <<ctx'[t].session.game_id, ctx'[t].sender>> IN
               ctx'[t].loaded =
                  IF key \in StoredKeys(Repository)
                  THEN Repository[key[1]][key[2]]
                  ELSE [player_id |-> key[2], game_id |-> key[1], state |-> New,
                        results |-> <<>>, score |-> 0]
       /\ \A k \in StoredKeys(Repository) :
            (\A t \in Tasks :
                ~(pc[t] = "store" /\ pc'[t] = "done"
                  /\ k = <<ctx[t].session.game_id, ctx[t].session.player_id>>))
            => /\ k \in StoredKeys(Repository')
               /\ Repository'[k[1]][k[2]] = Repository[k[1]][k[2]]]_vars

\* Three keys hold a session, two of them of the same game, each in a
\* different state, after two turns overlapped.
C22_Witness ==
    /\ races > 0
    /\ Cardinality(StoredKeys(Repository)) = 3
    /\ \A k1, k2 \in StoredKeys(Repository) :
          k1 # k2 => Repository[k1[1]][k1[2]].state # Repository[k2[1]][k2[2]].state

----------------------------------------------------------------------------
(* Properties of successive stored sessions, messages handled one at a     *)
(* time (SeqSpec).                                                         *)

\* C23: each turn leaves the stored results as they were or with exactly
\* one TopicResult appended, and the stored score never decreases; before
\* the first store the results are empty and the score is 0.
C23_ResultsGrowByOne ==
    [][LET old == IF store = None THEN [results |-> <<>>, score |-> 0] ELSE store[1]
       IN store' # None =>
            /\ \/ store'[1].results = old.results
               \/ /\ Len(store'[1].results) = Len(old.results) + 1
                  /\ SubSeq(store'[1].results, 1, Len(old.results)) = old.results
            /\ store'[1].score >= old.score]_vars

\* A second result was appended to a first one and the score grew by 3.
C23_Witness ==
    \E t \in Tasks :
        /\ pc[t] = "done"
        /\ Len(ctx[t].loaded.results) = 1
        /\ store # None
        /\ Len(store[1].results) = 2
        /\ store[1].score = ctx[t].loaded.score + 3

\* The state changed from a to b along an edge of the state graph; stop
\* tells whether the message was a stop word.
Edge(a, b, stop) ==
    \/ a = New /\ b = Deciding
    \/ a = Deciding /\ b = ChoosingTopic
    \/ a = Deciding /\ b = Terminated
    \/ /\ a = ChoosingTopic
       /\ b.tag = "Answering"
       /\ b.attempt.attempt = 0
    \/ /\ a.tag = "Answering"
       /\ b.tag = "Answering"
       /\ b.attempt.question_id = a.attempt.question_id
       /\ b.attempt.attempt = a.attempt.attempt + 1
    \/ a.tag = "Answering" /\ b = ChoosingTopic
    \/ a.tag = "Answering" /\ b = Complete
    \/ a # Terminated /\ b = Terminated /\ stop

\* C24: a turn leaves the state as it was or changes it along one of the
\* edges New-Deciding, Deciding-ChoosingTopic, Deciding-Terminated,
\* ChoosingTopic-Answering{q,0}, Answering{q,a}-Answering{q,a+1},
\* Answering-ChoosingTopic, Answering-Complete, and any state but
\* Terminated to Terminated on a stop word; what is stored is the state
\* the turn ended in.
C24_StateEdges ==
    \A t \in Tasks :
        Decided(t) =>
            /\ \/ ctx[t].session.state = ctx[t].loaded.state
               \/ Edge(ctx[t].loaded.state, ctx[t].session.state,
                       is_stop(game, ctx[t].message))
            /\ (pc[t] = "done" /\ ctx[t].loaded.state # Terminated) =>
                   store[1].state = ctx[t].session.state

\* A wrong answer moved Answering{q, 0} to Answering{q, 1} for the second
\* question of a topic.
C24_Witness ==
    \E t \in Tasks :
        /\ pc[t] = "done"
        /\ ctx[t].loaded.state = SessionState_answering(QuestionId(0, 1), 0)
        /\ ctx[t].session.state = SessionState_answering(QuestionId(0, 1), 1)

----------------------------------------------------------------------------
(* Properties of the pure functions, continued (PureSpec).                 *)

\* C25: for a topic t of 1 to 255 questions get_question_from_topic(t)
\* returns a QuestionId whose topic index is t and whose question index is
\* smaller than the number of questions of t, so that the question exists
\* in the game.
C25_QuestionInRange ==
    (call.fn = "get_question_from_topic" /\ call.step = 1
     /\ Len(game.topics[call.n + 1].questions) \in 1..(U8 - 1)) =>
        /\ call.question[1] = call.n
        /\ call.question[2] >= 0
        /\ call.question[2] < Len(game.topics[call.n + 1].questions)
        /\ call.question[2] + 1 \in DOMAIN game.topics[call.question[1] + 1].questions

\* The last of 255 questions was selected.
C25_Witness ==
    /\ call.fn = "get_question_from_topic"
    /\ call.step = 1
    /\ Len(game.topics[call.n + 1].questions) = U8 - 1
    /\ call.question = QuestionId(0, U8 - 2)

----------------------------------------------------------------------------
(* Properties of a game with a topic without questions (HoleSpec).         *)

\* The topic has no questions.
EmptyTopic(topic_id) == game.topics[topic_id + 1].questions = <<>>

\* C26: selecting, in ChoosingTopic, an unresolved topic without questions
\* makes the turn fail before any response and before the store, so the
\* stored session stays as it was; no result is ever recorded for such a
\* topic and the stored session never becomes Complete.
C26_EmptyTopicBlocks ==
    /\ \A t \in Tasks :
         (/\ TopicChosen(t)
          /\ ~is_stop(game, ctx[t].message)
          /\ ~has_played(ctx[t].loaded, find_topic(game, ctx[t].message)[1])
          /\ EmptyTopic(find_topic(game, ctx[t].message)[1]))
         => /\ ctx[t].panicked
            /\ ctx[t].out = <<>>
            /\ ctx[t].stored = <<>>
            /\ ctx[t].session = ctx[t].loaded
            /\ store = Some(ctx[t].loaded)
    /\ store # None =>
         /\ \A i \in 1..Len(store[1].results) : ~EmptyTopic(store[1].results[i].topic_id)
         /\ store[1].state # Complete

----------------------------------------------------------------------------
(* Invariants of the stored session.                                       *)

\* C27: no session in the store has state New: every store call writes a
\* session whose state is Deciding, ChoosingTopic, Answering, Complete or
\* Terminated (Spec).
C27_NeverStoredNew ==
    LET Written == {"Deciding", "ChoosingTopic", "Answering", "Complete", "Terminated"}
    IN /\ store # None => store[1].state.tag \in Written
       /\ \A t \in Tasks : \A i \in 1..Len(ctx[t].stored) :
             ctx[t].stored[i].session.state.tag \in Written

\* Two first messages of a player overlapped and the store holds Deciding.
C27_Witness ==
    /\ races > 0
    /\ store # None
    /\ store[1].state = Deciding
    /\ \A t \in Tasks : pc[t] = "done" /\ ctx[t].loaded.state = New

\* C28: in a stored session with state Answering{q, a} the topic of q has
\* no TopicResult (Spec).
C28_AnsweringUnresolved ==
    (store # None /\ store[1].state.tag = "Answering") =>
        \A i \in 1..Len(store[1].results) :
            store[1].results[i].topic_id # store[1].state.attempt.question_id[1]

\* The first topic is being answered while the second has a result, after
\* two turns overlapped.
C28_Witness ==
    /\ races > 0
    /\ store # None
    /\ store[1].state.tag = "Answering"
    /\ store[1].state.attempt.question_id[1] = 0
    /\ Len(store[1].results) = 1
    /\ store[1].results[1].topic_id = 1

\* C29: in a stored session with state Answering{q, a}, a < m when the
\* game has max_attempt = m >= 1 and a = 0 when it has none; a + 1 stays
\* below 256 and every PleaseRetryLimits sent carries at least 1 (SeqSpec).
C29_AttemptBelowLimit ==
    /\ (store # None /\ store[1].state.tag = "Answering") =>
          LET a == store[1].state.attempt.attempt IN
          /\ a + 1 < U8
          /\ (game.max_attempt # None /\ game.max_attempt[1] >= 1) => a < game.max_attempt[1]
          /\ game.max_attempt = None => a = 0
    /\ \A t \in Tasks : \A i \in 1..Len(ctx[t].out) :
          ctx[t].out[i].tag = "PleaseRetryLimits" => ctx[t].out[i].left >= 1

\* With max_attempt 2 a wrong answer left Answering{q, 1} in the store and
\* PleaseRetryLimits(1) was sent.
C29_Witness ==
    \E t \in Tasks :
        /\ pc[t] = "done"
        /\ game.max_attempt = Some(2)
        /\ ctx[t].out = <<PleaseRetryLimits(1)>>
        /\ store # None
        /\ store[1].state.tag = "Answering"
        /\ store[1].state.attempt.attempt = 1

\* C30: for a game of at most 255 topics a stored session has no more
\* TopicResults than the game has topics, and it has state Complete only
\* if every topic has exactly one TopicResult (Spec).
C30_CompleteMeansAll ==
    (store # None /\ Len(game.topics) <= U8 - 1) =>
        /\ Len(store[1].results) <= Len(game.topics)
        /\ store[1].state = Complete =>
              \A id \in 0..(Len(game.topics) - 1) :
                 Cardinality({i \in 1..Len(store[1].results) :
                                 store[1].results[i].topic_id = id}) = 1

\* A session completed with both topics, one of them with score 0, after
\* two turns overlapped.
C30_Witness ==
    /\ races > 0
    /\ store # None
    /\ store[1].state = Complete
    /\ Len(store[1].results) = 2
    /\ \E i \in 1..2 : store[1].results[i].score = 0

----------------------------------------------------------------------------
(* Properties of the last claims: games without topics, scores, empty      *)
(* inputs, payload order and progress to Complete.                         *)

\* The topics of the game that have no result in session s.
UnresolvedTopics(s) ==
    {id \in 0..(Len(game.topics) - 1) : ~has_played(s, id)}

\* Inputs of a player who chooses a topic: the texts of RawTexts in normal
\* form and the keys of the game.
ChoiceTexts ==
    {answer_to_standard(raw) : raw \in RawTexts}
    \cup {game.topics[i].key : i \in 1..Len(game.topics)}

\* C31: in every stored session whose state is ChoosingTopic at least one
\* topic of the game is unresolved and some input moves the session to
\* Answering, also for a game whose topic list is empty.
C31_ChoosingHasTopic ==
    (store # None /\ store[1].state = ChoosingTopic) =>
        /\ UnresolvedTopics(store[1]) # {}
        /\ \E text \in ChoiceTexts, r \in Draws(game) :
              TurnSession(store[1], text, r).state.tag = "Answering"

\* The sum of f[lo..hi], halving the range.
RECURSIVE SumRange(_, _, _)
SumRange(f, lo, hi) ==
    IF lo > hi THEN 0
    ELSE IF lo = hi THEN f[lo]
    ELSE LET mid == (lo + hi) \div 2
         IN SumRange(f, lo, mid) + SumRange(f, mid + 1, hi)

\* The bonuses of the topics of the results, the scores of the results and
\* the bonuses of all topics of the game.
SumBonuses(results) ==
    SumRange([i \in 1..Len(results) |-> get_bonus(game, results[i].topic_id)],
             1, Len(results))

ExactScore(results) ==
    SumRange([i \in 1..Len(results) |-> results[i].score], 1, Len(results))

TotalBonus ==
    SumRange([i \in 1..Len(game.topics) |-> game.topics[i].bonus], 1, Len(game.topics))

\* The sessions that exist: the stored one and those of the turns in flight.
Sessions ==
    (IF store = None THEN {} ELSE {store[1]})
    \cup {ctx[t].session : t \in {u \in Tasks : pc[u] # "idle"}}

\* C32: the score of a session is at most the sum of the bonuses of the
\* topics in its results, which is at most the sum of the bonuses of all
\* topics of the game; the exact sum of the recorded scores fits 16 bits, so
\* the addition in record never wraps.
C32_ScoreBounded ==
    \A s \in Sessions :
        /\ s.score <= SumBonuses(s.results)
        /\ SumBonuses(s.results) <= TotalBonus
        /\ ExactScore(s.results) < U16
        /\ s.score = ExactScore(s.results)

\* All 256 topics of the largest bonus were answered correctly.
C32_Witness ==
    /\ store # None
    /\ Len(store[1].results) = U8
    /\ store[1].score = U8 * MaxBonus
    /\ store[1].state = Complete

\* The turn of task t handled, in ChoosingTopic, a message whose normal form
\* is empty, in a game with a topic.
EmptyChoice(t) ==
    /\ Decided(t)
    /\ ctx[t].loaded.state = ChoosingTopic
    /\ ctx[t].message = <<>>
    /\ Len(game.topics) >= 1

\* The turn asked a question of topic 0 and nothing else.
AsksFirstTopic(t) ==
    \E q \in 0..(Len(game.topics[1].questions) - 1) :
        /\ ctx[t].out = <<AnswerQuestion(get_question_text(game, QuestionId(0, q)))>>
        /\ ctx[t].session.state = SessionState_answering(QuestionId(0, q), 0)

\* C33 as stated: in ChoosingTopic an input with an empty normal form is
\* matched to topic 0; the turn never emits Rephrase, it emits AnswerQuestion
\* for topic 0 if topic 0 is unresolved and AlreadyAnswered if it is resolved.
C33_Original ==
    \A t \in Tasks :
        EmptyChoice(t) =>
            /\ find_topic(game, ctx[t].message) = Some(0)
            /\ \A i \in 1..Len(ctx[t].out) : ctx[t].out[i] # Rephrase
            /\ IF has_played(ctx[t].loaded, 0)
               THEN ctx[t].out = <<AlreadyAnswered>>
               ELSE AsksFirstTopic(t)

\* C33: the same when the empty word is not a stop word; if topic 0 is
\* unresolved and its number of questions, read as u8, is 0 (no question, or
\* 256 of them) the turn panics: nothing is sent, changed or stored.
C33_EmptyInput ==
    \A t \in Tasks :
        (EmptyChoice(t) /\ ~is_stop(game, ctx[t].message)) =>
            /\ find_topic(game, ctx[t].message) = Some(0)
            /\ \A i \in 1..Len(ctx[t].out) : ctx[t].out[i] # Rephrase
            /\ IF has_played(ctx[t].loaded, 0)
               THEN ctx[t].out = <<AlreadyAnswered>> /\ ctx[t].session = ctx[t].loaded
               ELSE IF get_question_from_topic_panics(game, 0)
               THEN PanickedSilently(t)
               ELSE AsksFirstTopic(t)

\* An empty input was sent with topic 0 resolved and topic 1 open.
C33_Witness ==
    \E t \in Tasks :
        /\ EmptyChoice(t)
        /\ ~is_stop(game, ctx[t].message)
        /\ has_played(ctx[t].loaded, 0)
        /\ ~has_played(ctx[t].loaded, 1)
        /\ ctx[t].out = <<AlreadyAnswered>>

\* The first n elements of a sequence.
Prefix(seq, n) == SubSeq(seq, 1, n)

\* C34: process_messages gives the text messages of a payload to the
\* handler one at a time, each exactly once, in the order in which
\* extract_messages listed them: what was handed over is always the
\* beginning of the list, and process_messages ends only when the whole
\* list was handed over.
C34_PayloadOrder ==
    /\ [](\A t \in Tasks :
            ~NoPayload(t) =>
                /\ Len(call[t].handled) + Len(call[t].messages) = Len(call[t].listed)
                /\ call[t].handled = Prefix(call[t].listed, Len(call[t].handled)))
    /\ [][\A t \in Tasks :
            (~NoPayload(t) /\ call'[t] = IdleCall) =>
                call[t].handled = call[t].listed]_vars

\* C35: for a game with a topic, a question in every topic and maxAttempt
\* configured, the session of a player who plays on reaches Complete, and
\* no more than 2 + topics * (1 + max(maxAttempt, 1)) messages are handled.
C35_ReachesComplete ==
    /\ <>(store # None /\ store[1].state = Complete)
    /\ [](call.n <= MessageBound)
====
